---- MODULE Spec2Model ----
(***************************************************************************)
(* AliFilter, Python API (src/API/Python/alifilter.py).                    *)
(*                                                                         *)
(* Numbers.  The code computes in IEEE doubles.  Here a feature value is   *)
(* an exact rational <<numerator, denominator>> in lowest terms, and the   *)
(* two transcendental functions the code calls (math.log, math.exp) are    *)
(* fixed-point tables in thousandths, so that a score and a threshold are  *)
(* integers in thousandths (0.5 is 500).                                   *)
(*                                                                         *)
(* Characters.  Bio.Seq holds text as ASCII, so a residue is one ASCII     *)
(* character; Residues holds one representative of each class the scan     *)
(* distinguishes.                                                          *)
(***************************************************************************)
EXTENDS Integers, Sequences, FiniteSets, TLC

VARIABLES
    config,     \* the parsed JSON document given to AliFilterModel.__init__
    model,      \* the AliFilterModel object: its three attributes, or its state of construction
    alignment,  \* the Bio.Align.MultipleSeqAlignment object: a sequence of records [id, seq]
    call,       \* the last API call that returned: operation, argument before and after, result
    features,   \* the numpy matrix built by __alifilter_getAlignmentFeatures
    scan,       \* gapCount, validChars, counts of the last column scanned
    pass1,      \* columns whose first-pass step has run
    pass2,      \* columns whose second-pass step has run
    phase       \* position in __alifilter_getAlignmentFeatures

vars == <<config, model, alignment, call, features, scan, pass1, pass2, phase>>

----------------------------------------------------------------------------
(* Bounds *)

\* residues (rows times columns) of an alignment, sequential feature extraction
MaxCells == 5
\* residues of an alignment whose per-column steps are interleaved
ParCells == 4
\* residues of an alignment given to the model's API
ApiCells == 4
\* rows of a feature matrix, and entries of a score sequence, given directly to the API
MaxInputLen == 2

----------------------------------------------------------------------------
(* Rationals *)

Abs(x) == IF x < 0 THEN -x ELSE x

RECURSIVE GCD(_, _)
GCD(a, b) == IF b = 0 THEN a ELSE GCD(b, a % b)

\* the rational n/d (d # 0) in lowest terms with a positive denominator
Rat(n, d) ==
    LET g == GCD(Abs(n), Abs(d))
        s == IF d < 0 THEN -1 ELSE 1
    IN  <<(s * n) \div g, (s * d) \div g>>

RInt(num) == <<num, 1>>
RAdd(p, q) == Rat(p[1] * q[2] + q[1] * p[2], p[2] * q[2])
RScale(num, p) == Rat(num * p[1], p[2])
RDivInt(p, den) == Rat(p[1], p[2] * den)
RLeq(p, q) == p[1] * q[2] <= q[1] * p[2]

RECURSIVE RSum(_)
RSum(s) == IF s = <<>> THEN RInt(0) ELSE RAdd(Head(s), RSum(Tail(s)))

Min(a, b) == IF a <= b THEN a ELSE b

----------------------------------------------------------------------------
(* Characters *)

Residues == {"A", "b", "-", "?"}

\* ord(): the code point of a one-character string
Ord(c) ==
    CASE c = "-" -> 45
      [] c = "*" -> 42
      [] c = "?" -> 63
      [] c = "A" -> 65
      [] c = "B" -> 66
      [] c = "Z" -> 90
      [] c = "a" -> 97
      [] c = "b" -> 98
      [] c = "z" -> 122

\* str.upper() of a one-character ASCII string
Upper(c) ==
    CASE c = "a" -> "A"
      [] c = "b" -> "B"
      [] c = "z" -> "Z"
      [] OTHER -> c

----------------------------------------------------------------------------
(* The alignment object *)

\* len(alignment)
NumSequences(al) == Len(al)

\* alignment.get_alignment_length(): the length of the first record, 0 without records
GetAlignmentLength(al) == IF Len(al) = 0 THEN 0 ELSE Len(al[1].seq)

\* alignment[i][column], 0-based
CharAt(al, i, column) == al[i + 1].seq[column + 1]

\* the rectangular alignments of r records and c columns over the residues in chars
AlignmentsOfShape(chars, r, c) ==
    { [i \in 1..r |-> [id |-> i, seq |-> rows[i]]] : rows \in [1..r -> [1..c -> chars]] }

\* the alignments of at most cells residues; one without records has no columns
AlignmentsUpTo(chars, cells) ==
    LET shapes == { s \in (0..cells) \X (0..cells) :
                      s[1] * s[2] <= cells /\ (s[1] = 0 => s[2] = 0) }
    IN  UNION { AlignmentsOfShape(chars, s[1], s[2]) : s \in shapes }

----------------------------------------------------------------------------
(* __alifilter_computeColumnFeatures *)

\* math.log of a count in thousandths: round(1000 * ln x)
LogMilli(x) ==
    CASE x = 1 -> 0
      [] x = 2 -> 693
      [] x = 3 -> 1099
      [] x = 4 -> 1386
      [] x = 5 -> 1609
      [] x = 6 -> 1792
      [] x = 7 -> 1946
      [] x = 8 -> 2079

\* gapCount = 0, counts = numpy.zeros(26, 'i'), validChars = 0
ScanInit == [gapCount |-> 0, validChars |-> 0, counts |-> [k \in 0..25 |-> 0]]

\* ScanRow without the case normalization: ord(c) in place of ord(c.upper())
ScanRow_NoUpper(st, c) ==
    IF c = "-"
    THEN [st EXCEPT !.gapCount = @ + 1]
    ELSE LET C == Ord(c)
         IN  IF C >= 65 /\ C <= 90
             THEN [st EXCEPT !.validChars = @ + 1, !.counts[C - 65] = @ + 1]
             ELSE st

\* the body of the loop over the rows, for the character c
ScanRow(st, c) ==
    IF c = "-"
    THEN [st EXCEPT !.gapCount = @ + 1]
    ELSE LET C == Ord(Upper(c))
         IN  IF C >= 65 /\ C <= 90
             THEN [st EXCEPT !.validChars = @ + 1, !.counts[C - 65] = @ + 1]
             ELSE st

RECURSIVE ScanFrom(_, _, _, _)
ScanFrom(al, column, i, st) ==
    IF i >= NumSequences(al)
    THEN st
    ELSE ScanFrom(al, column, i + 1, ScanRow(st, CharAt(al, i, column)))

\* for i in range(len(alignment)): the scan of one column
ColumnScan(al, column) == ScanFrom(al, column, 0, ScanInit)

\* max(counts)
RECURSIVE MaxCountFrom(_, _)
MaxCountFrom(counts, k) ==
    IF k = 25
    THEN counts[25]
    ELSE LET rest == MaxCountFrom(counts, k + 1)
         IN  IF counts[k] >= rest THEN counts[k] ELSE rest

MaxCount(counts) == MaxCountFrom(counts, 0)

\* one term of the entropy, 0 if x <= 0 else - x / validChars * math.log(x / validChars),
\* as a number of thousandths still to be divided by validChars
EntropyTerm(x, validChars) ==
    IF x <= 0 THEN 0 ELSE x * (LogMilli(validChars) - LogMilli(x))

\* sum(map(..., counts)), from bucket b on, in the unit of EntropyTerm
RECURSIVE EntropyFrom(_, _, _)
EntropyFrom(counts, validChars, b) ==
    IF b > 25
    THEN 0
    ELSE EntropyTerm(counts[b], validChars) + EntropyFrom(counts, validChars, b + 1)

Entropy(counts, validChars) == Rat(EntropyFrom(counts, validChars, 0), 1000 * validChars)

\* feature_matrix[column, 0] = gapCount / len(alignment)
GapFraction(st, al) == Rat(st.gapCount, NumSequences(al))

\* feature_matrix[column, 1]
MaxIdentityFraction(st, al) ==
    IF st.validChars > 0 THEN Rat(MaxCount(st.counts), NumSequences(al)) ELSE RInt(0)

\* feature_matrix[column, 3]
ShannonEntropy(st) ==
    IF st.validChars > 0 THEN Entropy(st.counts, st.validChars) ELSE RInt(0)

\* DistanceFromExtremity with the distance to the right edge one too large
DistanceFromExtremity_OffByOne(al, column) ==
    RInt(Min(column, GetAlignmentLength(al) - column))

\* feature_matrix[column, 2] = min(column, alignment.get_alignment_length() - 1 - column)
DistanceFromExtremity(al, column) ==
    RInt(Min(column, GetAlignmentLength(al) - 1 - column))

\* the matrix after the call: fields 0..3 of the row of the column are assigned.
\* feature_matrix[column, k] is fm[column + 1][k + 1]
ComputeColumnFeatures(al, column, fm) ==
    LET st == ColumnScan(al, column)
    IN  [fm EXCEPT ![column + 1] =
            [@ EXCEPT ![1] = GapFraction(st, al),
                      ![2] = MaxIdentityFraction(st, al),
                      ![3] = DistanceFromExtremity(al, column),
                      ![4] = ShannonEntropy(st)]]

----------------------------------------------------------------------------
(* __alifilter_getAlignmentFeatures *)

\* numpy.zeros([alignmentLength, 6])
Zeros(alignmentLength) == [i \in 1..alignmentLength |-> [k \in 1..6 |-> RInt(0)]]

\* features[j, 0]
Gap(fm, j) == fm[j + 1][1]

\* GapWindow1 with the missing neighbours of a boundary column counted as zeros
GapWindow1_ZeroPadded(fm, i, alignmentLength) ==
    RDivInt(RAdd(RAdd(IF i > 0 THEN Gap(fm, i - 1) ELSE RInt(0),
                      Gap(fm, i)),
                 IF i < alignmentLength - 1 THEN Gap(fm, i + 1) ELSE RInt(0)),
            3)

\* % Gaps +- 1
GapWindow1(fm, i, alignmentLength) ==
    RDivInt(RAdd(RAdd(IF i > 0 THEN Gap(fm, i - 1) ELSE RInt(0),
                      Gap(fm, i)),
                 IF i < alignmentLength - 1 THEN Gap(fm, i + 1) ELSE RInt(0)),
            1 + (IF i > 0 THEN 1 ELSE 0) + (IF i < alignmentLength - 1 THEN 1 ELSE 0))

\* % Gaps +- 2
GapWindow2(fm, i, alignmentLength) ==
    RDivInt(RAdd(RAdd(RAdd(RAdd(IF i > 1 THEN Gap(fm, i - 2) ELSE RInt(0),
                                IF i > 0 THEN Gap(fm, i - 1) ELSE RInt(0)),
                           Gap(fm, i)),
                      IF i < alignmentLength - 1 THEN Gap(fm, i + 1) ELSE RInt(0)),
                 IF i < alignmentLength - 2 THEN Gap(fm, i + 2) ELSE RInt(0)),
            1 + (IF i > 1 THEN 2 ELSE (IF i > 0 THEN 1 ELSE 0))
              + (IF i < alignmentLength - 2 THEN 2
                 ELSE (IF i < alignmentLength - 1 THEN 1 ELSE 0)))

\* SmoothColumn smoothing in place: the +-1 average also replaces field 0 of row i
SmoothColumn_InPlace(fm, i, alignmentLength) ==
    [fm EXCEPT ![i + 1] =
        [@ EXCEPT ![1] = GapWindow1(fm, i, alignmentLength),
                  ![5] = GapWindow1(fm, i, alignmentLength),
                  ![6] = GapWindow2(fm, i, alignmentLength)]]

\* the body of the second loop: fields 4 and 5 of row i are assigned
SmoothColumn(fm, i, alignmentLength) ==
    [fm EXCEPT ![i + 1] =
        [@ EXCEPT ![5] = GapWindow1(fm, i, alignmentLength),
                  ![6] = GapWindow2(fm, i, alignmentLength)]]

\* the matrix after the first k iterations of the first loop (columns 0..k-1)
RECURSIVE FirstLoop(_, _)
FirstLoop(al, k) ==
    IF k = 0
    THEN Zeros(GetAlignmentLength(al))
    ELSE ComputeColumnFeatures(al, k - 1, FirstLoop(al, k - 1))

\* the matrix after the first k iterations of the second loop
RECURSIVE SecondLoop(_, _)
SecondLoop(al, k) ==
    IF k = 0
    THEN FirstLoop(al, GetAlignmentLength(al))
    ELSE SmoothColumn(SecondLoop(al, k - 1), k - 1, GetAlignmentLength(al))

\* the matrix the function returns, its loops run in the order of the code
GetAlignmentFeatures(al) == SecondLoop(al, GetAlignmentLength(al))

Columns(al) == 0..(GetAlignmentLength(al) - 1)

\* alignmentLength = ...; features = numpy.zeros([alignmentLength, 6])
Allocate ==
    /\ phase = "start"
    /\ features' = Zeros(GetAlignmentLength(alignment))
    /\ phase' = "pass1"
    /\ UNCHANGED <<config, model, alignment, call, scan, pass1, pass2>>

\* one iteration of the first loop, for column c
FirstPassStep(c) ==
    /\ phase = "pass1"
    /\ c \in Columns(alignment) \ pass1
    /\ features' = ComputeColumnFeatures(alignment, c, features)
    /\ scan' = [column |-> c, locals |-> ColumnScan(alignment, c)]
    /\ pass1' = pass1 \cup {c}
    /\ UNCHANGED <<config, model, alignment, call, pass2, phase>>

\* the first loop is over: the second begins
EndFirstPass ==
    /\ phase = "pass1"
    /\ pass1 = Columns(alignment)
    /\ phase' = "pass2"
    /\ UNCHANGED <<config, model, alignment, call, features, scan, pass1, pass2>>

\* one iteration of the second loop, for column i
SecondPassStep(i) ==
    /\ phase = "pass2"
    /\ i \in Columns(alignment) \ pass2
    /\ features' = SmoothColumn(features, i, GetAlignmentLength(alignment))
    /\ pass2' = pass2 \cup {i}
    /\ UNCHANGED <<config, model, alignment, call, scan, pass1, phase>>

\* return features
ReturnFeatures ==
    /\ phase = "pass2"
    /\ pass2 = Columns(alignment)
    /\ phase' = "done"
    /\ UNCHANGED <<config, model, alignment, call, features, scan, pass1, pass2>>

NoConfig == [kind |-> "none"]
NoCall == [op |-> "none"]
NoScan == [column |-> -1, locals |-> ScanInit]

InitFeatures ==
    /\ alignment \in AlignmentsUpTo(Residues, MaxCells)
    /\ config = NoConfig
    /\ model = [state |-> "unconstructed"]
    /\ call = NoCall
    /\ features = <<>>
    /\ scan = NoScan
    /\ pass1 = {}
    /\ pass2 = {}
    /\ phase = "start"

\* the loops of the code: for i in range(alignmentLength), ascending
NextFeatures ==
    \/ Allocate
    \/ FirstPassStep(Cardinality(pass1))
    \/ EndFirstPass
    \/ SecondPassStep(Cardinality(pass2))
    \/ ReturnFeatures

SpecFeatures == InitFeatures /\ [][NextFeatures]_vars

InitPar ==
    /\ alignment \in AlignmentsUpTo(Residues, ParCells)
    /\ config = NoConfig
    /\ model = [state |-> "unconstructed"]
    /\ call = NoCall
    /\ features = <<>>
    /\ scan = NoScan
    /\ pass1 = {}
    /\ pass2 = {}
    /\ phase = "start"

\* the iterations of each loop taken in any order, the second loop after the first
NextPar ==
    \/ Allocate
    \/ \E c \in Columns(alignment) : FirstPassStep(c)
    \/ EndFirstPass
    \/ \E i \in Columns(alignment) : SecondPassStep(i)
    \/ ReturnFeatures

SpecPar == InitPar /\ [][NextPar]_vars

----------------------------------------------------------------------------
(* AliFilterModel *)

\* an optional JSON field: <<>> when the key is absent, <<v>> when it holds v
Absent == <<>>
Present(v) == <<v>>

\* the documents the constructor is given.  Numbers are integers; a threshold is in
\* thousandths
CoefficientLists ==
    { <<0, 0, 0, 0, 0, 0>>,        \* no feature counts
      <<-2, 0, 0, 0, 0, 0>>,       \* only the gap fraction counts
      <<-2, 0, 0, 0, 0>>,          \* five entries
      <<-2, 0, 0, 0, 0, 0, 0>> }   \* seven entries

Configs ==
    [LogisticModel :
        {Absent} \cup
        { Present(lm) : lm \in [Coefficients : {Absent} \cup {Present(c) : c \in CoefficientLists},
                                Intercept : {Absent, Present(0), Present(1)}] },
     FastThreshold : {Absent, Present(600), Present(1001)}]

\* self.threshold = 0.5, in thousandths
DefaultThreshold == 500

\* jsonModel['LogisticModel']['Coefficients'] and ['Intercept'] are both there
HasModelKeys(cfg) ==
    /\ cfg.LogisticModel # Absent
    /\ cfg.LogisticModel[1].Coefficients # Absent
    /\ cfg.LogisticModel[1].Intercept # Absent

\* NewModel with the intercept optional: 0 when the document has none
NewModel_InterceptOptional(cfg) ==
    IF cfg.LogisticModel = Absent \/ cfg.LogisticModel[1].Coefficients = Absent
    THEN [state |-> "KeyError"]
    ELSE [state |-> "constructed",
          logisticModelCoefficients |-> cfg.LogisticModel[1].Coefficients[1],
          logisticModelIntercept |-> IF cfg.LogisticModel[1].Intercept # Absent
                                     THEN cfg.LogisticModel[1].Intercept[1]
                                     ELSE 0,
          threshold |-> IF cfg.FastThreshold # Absent
                        THEN cfg.FastThreshold[1]
                        ELSE 500]

\* __init__: the object constructed, or the exception that leaves none.
\* numpy.transpose(numpy.array(list, ndmin=2)) is the list as a column: a sequence here
NewModel(cfg) ==
    IF ~HasModelKeys(cfg)
    THEN [state |-> "KeyError"]
    ELSE [state |-> "constructed",
          logisticModelCoefficients |-> cfg.LogisticModel[1].Coefficients[1],
          logisticModelIntercept |-> cfg.LogisticModel[1].Intercept[1],
          threshold |-> IF cfg.FastThreshold # Absent
                        THEN cfg.FastThreshold[1]
                        ELSE DefaultThreshold]

Ok(v) == [kind |-> "ok", value |-> v]
Raised(e) == [kind |-> e, value |-> <<>>]

\* the width of a feature matrix: numpy.zeros([alignmentLength, 6])
FeatureCount == 6

\* round(1000 * e^k) for an integer k; 0 below the table, the last entry above it
ExpTable(k) ==
    CASE k <= -8 -> 0
      [] k = -7 -> 1
      [] k = -6 -> 2
      [] k = -5 -> 7
      [] k = -4 -> 18
      [] k = -3 -> 50
      [] k = -2 -> 135
      [] k = -1 -> 368
      [] k = 0 -> 1000
      [] k = 1 -> 2718
      [] k = 2 -> 7389
      [] k = 3 -> 20086
      [] k = 4 -> 54598
      [] k = 5 -> 148413
      [] k = 6 -> 403429
      [] k = 7 -> 1096633
      [] k >= 8 -> 2980958

\* math.exp of a rational, in thousandths: the table, linear between its entries
ExpMilli(q) ==
    LET k == q[1] \div q[2]
        r == q[1] % q[2]
    IN  ExpTable(k) + ((ExpTable(k + 1) - ExpTable(k)) * r) \div q[2]

\* lambda x: 1 / (1 + math.exp(-(x + self.logisticModelIntercept))), in thousandths
Sigmoid(x, intercept) ==
    (1000 * 1000) \div (1000 + ExpMilli(RScale(-1, RAdd(x, RInt(intercept)))))

\* numpy.dot of a matrix of FeatureCount columns and the coefficient column: a column
Dot(fm, coefficients) ==
    [i \in 1..Len(fm) |->
        <<RSum([k \in 1..FeatureCount |-> RScale(coefficients[k], fm[i][k])])>>]

\* Squeeze taking a column without entries for a scalar too
Squeeze_EmptyIsScalar(column) ==
    IF Len(column) <= 1
    THEN [ndim |-> 0, item |-> RInt(0), items |-> <<>>]
    ELSE [ndim |-> 1, item |-> RInt(0), items |-> [i \in 1..Len(column) |-> column[i][1]]]

\* numpy.squeeze of a column: every axis of length 1 goes, so that a column of one
\* entry becomes a 0-dimensional array
Squeeze(column) ==
    IF Len(column) = 1
    THEN [ndim |-> 0, item |-> column[1][1], items |-> <<>>]
    ELSE [ndim |-> 1, item |-> RInt(0), items |-> [i \in 1..Len(column) |-> column[i][1]]]

\* getScores
GetScores(m, fm) ==
    IF Len(m.logisticModelCoefficients) # FeatureCount
    THEN Raised("ValueError")      \* numpy.dot: the shapes are not aligned
    ELSE LET x == Squeeze(Dot(fm, m.logisticModelCoefficients))
         IN  IF x.ndim = 0
             THEN Raised("TypeError")  \* map: iteration over a 0-d array
             ELSE Ok([i \in 1..Len(x.items) |-> Sigmoid(x.items[i], m.logisticModelIntercept)])

\* GetMaskFromScores with the comparison strict: a score equal to the threshold is dropped
GetMaskFromScores_Strict(m, scores) ==
    [i \in 1..Len(scores) |-> IF scores[i] > m.threshold THEN "1" ELSE "0"]

\* getMaskFromScores: the string of '1' and '0' as a sequence of characters
GetMaskFromScores(m, scores) ==
    [i \in 1..Len(scores) |-> IF scores[i] >= m.threshold THEN "1" ELSE "0"]

\* getMaskFromFeatures
GetMaskFromFeatures(m, fm) ==
    LET got == GetScores(m, fm)
    IN  IF got.kind = "ok" THEN Ok(GetMaskFromScores(m, got.value)) ELSE got

\* getMask
GetMask(m, al) == GetMaskFromFeatures(m, GetAlignmentFeatures(al))

\* ''.join(seq.seq[i] for i in range(len(scores)) if scores[i] >= self.threshold)
RECURSIVE KeptFrom(_, _, _, _)
KeptFrom(seq, scores, threshold, i) ==
    IF i >= Len(scores)
    THEN <<>>
    ELSE (IF scores[i + 1] >= threshold THEN <<seq[i + 1]>> ELSE <<>>)
         \o KeptFrom(seq, scores, threshold, i + 1)

\* filter: a new alignment, one record per record of the argument
Filter(m, al) ==
    LET got == GetScores(m, GetAlignmentFeatures(al))
    IN  IF got.kind = "ok"
        THEN Ok([r \in 1..Len(al) |->
                    [id |-> al[r].id,
                     seq |-> KeptFrom(al[r].seq, got.value, m.threshold, 0)]])
        ELSE got

----------------------------------------------------------------------------
(* The calls *)

Half == Rat(1, 2)

\* rows of a feature matrix given directly to getScores and getMaskFromFeatures
FeatureRows ==
    { <<RInt(0), RInt(1), RInt(0), RInt(0), RInt(0), RInt(0)>>,
      <<Half, Half, RInt(1), RInt(0), Half, Half>>,
      <<RInt(1), RInt(0), RInt(0), RInt(0), RInt(1), RInt(1)>> }

SeqsUpTo(S, n) == UNION { [1..k -> S] : k \in 0..n }

FeatureInputs == SeqsUpTo(FeatureRows, MaxInputLen)

\* scores given directly to getMaskFromScores, in thousandths
ScoreValues == {500, 599, 600}

ScoreInputs == SeqsUpTo(ScoreValues, MaxInputLen)

\* AliFilterModel(modelFilePath)
Construct ==
    /\ model.state = "unconstructed"
    /\ model' = NewModel(config)
    /\ UNCHANGED <<config, alignment, call, features, scan, pass1, pass2, phase>>

\* alignment.getAlignmentFeatures()
CallGetAlignmentFeatures ==
    /\ call' = [op |-> "getAlignmentFeatures", arg |-> alignment, argAfter |-> alignment,
                result |-> Ok(GetAlignmentFeatures(alignment))]
    /\ UNCHANGED <<config, model, alignment, features, scan, pass1, pass2, phase>>

\* model.getScores(fm)
CallGetScores(fm) ==
    /\ model.state = "constructed"
    /\ call' = [op |-> "getScores", arg |-> fm, argAfter |-> fm,
                result |-> GetScores(model, fm)]
    /\ UNCHANGED <<config, model, alignment, features, scan, pass1, pass2, phase>>

\* model.getMaskFromScores(scores)
CallGetMaskFromScores(scores) ==
    /\ model.state = "constructed"
    /\ call' = [op |-> "getMaskFromScores", arg |-> scores, argAfter |-> scores,
                result |-> Ok(GetMaskFromScores(model, scores))]
    /\ UNCHANGED <<config, model, alignment, features, scan, pass1, pass2, phase>>

\* model.getMaskFromFeatures(fm)
CallGetMaskFromFeatures(fm) ==
    /\ model.state = "constructed"
    /\ call' = [op |-> "getMaskFromFeatures", arg |-> fm, argAfter |-> fm,
                result |-> GetMaskFromFeatures(model, fm)]
    /\ UNCHANGED <<config, model, alignment, features, scan, pass1, pass2, phase>>

\* model.getMask(alignment)
CallGetMask ==
    /\ model.state = "constructed"
    /\ call' = [op |-> "getMask", arg |-> alignment, argAfter |-> alignment,
                result |-> GetMask(model, alignment)]
    /\ UNCHANGED <<config, model, alignment, features, scan, pass1, pass2, phase>>

\* CallFilter trimming the alignment it is given instead of building a new one
CallFilter_InPlace ==
    /\ model.state = "constructed"
    /\ call' = [op |-> "filter", arg |-> alignment, argAfter |-> alignment,
                result |-> Filter(model, alignment)]
    /\ alignment' = IF Filter(model, alignment).kind = "ok"
                    THEN Filter(model, alignment).value
                    ELSE alignment
    /\ UNCHANGED <<config, model, features, scan, pass1, pass2, phase>>

\* model.filter(alignment), alignment.filter(model)
CallFilter ==
    /\ model.state = "constructed"
    /\ call' = [op |-> "filter", arg |-> alignment, argAfter |-> alignment,
                result |-> Filter(model, alignment)]
    /\ UNCHANGED <<config, model, alignment, features, scan, pass1, pass2, phase>>

ApiResidues == {"A", "-"}

\* a program that reads one alignment and one model file and calls the API on them
Init ==
    /\ config \in Configs
    /\ alignment \in AlignmentsUpTo(ApiResidues, ApiCells)
    /\ model = [state |-> "unconstructed"]
    /\ call = NoCall
    /\ features = <<>>
    /\ scan = NoScan
    /\ pass1 = {}
    /\ pass2 = {}
    /\ phase = "start"

\* the scores of the last call, when it was a getScores that returned
ScoresReturned == call.op = "getScores" /\ call.result.kind = "ok"

Next ==
    \/ Construct
    \/ CallGetAlignmentFeatures
    \/ CallGetScores(GetAlignmentFeatures(alignment))
    \/ ScoresReturned /\ CallGetMaskFromScores(call.result.value)
    \/ CallGetMaskFromFeatures(GetAlignmentFeatures(alignment))
    \/ CallGetMask
    \/ CallFilter

Spec == Init /\ [][Next]_vars

\* a program that gives the model feature matrices and scores of its own
InitInputs ==
    /\ config \in Configs
    /\ alignment = <<>>
    /\ model = [state |-> "unconstructed"]
    /\ call = NoCall
    /\ features = <<>>
    /\ scan = NoScan
    /\ pass1 = {}
    /\ pass2 = {}
    /\ phase = "start"

NextInputs ==
    \/ Construct
    \/ \E fm \in FeatureInputs : CallGetScores(fm)
    \/ \E scores \in ScoreInputs : CallGetMaskFromScores(scores)
    \/ \E fm \in FeatureInputs : CallGetMaskFromFeatures(fm)

SpecInputs == InitInputs /\ [][NextInputs]_vars

----------------------------------------------------------------------------
(* Properties of the feature extraction *)

\* the rows of the alignment whose character in the column is one of chars
RowsWith(al, column, chars) == { r \in 1..Len(al) : al[r].seq[column + 1] \in chars }

\* the characters counted in bucket b of the letter counters
LettersOfBucket(b) ==
    CASE b = 0 -> {"A", "a"}
      [] b = 1 -> {"B", "b"}
      [] b = 25 -> {"Z", "z"}
      [] OTHER -> {}

LettersAZ == UNION { LettersOfBucket(b) : b \in 0..25 }

\* the columns of {i-w, ..., i+w} that exist in an alignment of n columns
WindowColumns(i, w, n) == { j \in (i - w)..(i + w) : j >= 0 /\ j <= n - 1 }

RECURSIVE SumGap(_, _)
SumGap(fm, S) ==
    IF S = {}
    THEN RInt(0)
    ELSE LET j == CHOOSE x \in S : TRUE
         IN  RAdd(fm[j + 1][1], SumGap(fm, S \ {j}))

\* the average of the gap fraction over the existing columns of the window
WindowAverage(fm, i, w, n) ==
    RDivInt(SumGap(fm, WindowColumns(i, w, n)), Cardinality(WindowColumns(i, w, n)))

\* C4: once the second pass has run for column i, gapFractionWindow1[i] is the sum of
\* the gap fraction over the columns of {i-1, i, i+1} that exist divided by their
\* number, gapFractionWindow2[i] the same over {i-2, ..., i+2}; in an alignment of one
\* column both equal the gap fraction.
C4_WindowAverages ==
    LET n == GetAlignmentLength(alignment)
    IN  \A i \in pass2 :
          /\ features[i + 1][5] = WindowAverage(features, i, 1, n)
          /\ features[i + 1][6] = WindowAverage(features, i, 2, n)
          /\ n = 1 => /\ features[i + 1][5] = features[i + 1][1]
                      /\ features[i + 1][6] = features[i + 1][1]

\* five columns smoothed: the middle one averages five columns, the first one fewer
C4_Witness ==
    /\ phase = "done"
    /\ GetAlignmentLength(alignment) = 5
    /\ features[3][6] = Rat(3, 5)
    /\ features[3][5] = Rat(1, 3)
    /\ features[1][5] = Rat(1, 2)
    /\ features[1][6] = Rat(1, 3)

\* C5: the scan of a column, whatever characters it holds, ends with gapCount the
\* number of rows holding '-', each letter counter the number of rows holding its
\* letter in either case, validChars their sum, and gapCount + validChars the number
\* of rows holding a gap or a letter: a character that is neither counts as neither.
C5_UnrecognizedExcluded ==
    scan.column >= 0 =>
         LET gaps == RowsWith(alignment, scan.column, {"-"})
             letters == RowsWith(alignment, scan.column, LettersAZ)
         IN  /\ scan.column \in pass1
             /\ scan.locals.gapCount = Cardinality(gaps)
             /\ scan.locals.validChars = Cardinality(letters)
             /\ \A b \in 0..25 :
                  scan.locals.counts[b]
                    = Cardinality(RowsWith(alignment, scan.column, LettersOfBucket(b)))
             /\ scan.locals.gapCount + scan.locals.validChars
                  = Cardinality(gaps \cup letters)

\* a column holding a gap, a lower-case letter and an unrecognized character is scanned
C5_Witness ==
    /\ scan.column >= 0
    /\ RowsWith(alignment, scan.column, {"?"}) # {}
    /\ RowsWith(alignment, scan.column, {"b"}) # {}
    /\ RowsWith(alignment, scan.column, {"-"}) # {}
    /\ scan.locals.gapCount + scan.locals.validChars < Len(alignment)

\* the largest number of rows of the column holding one letter
MaxLetterRows(al, column) ==
    LET sizes == { Cardinality(RowsWith(al, column, LettersOfBucket(b))) : b \in 0..25 }
    IN  CHOOSE m \in sizes : \A x \in sizes : x <= m

\* C8: for every column whose first-pass step has run, the gap fraction is the number
\* of gaps over the number of sequences and the identity fraction the largest letter
\* count over the number of sequences, both in [0,1]; identity and entropy are 0
\* when the column holds no letter; the distance is min(column, numColumns-1-column).
C8_BaseFeatures ==
    LET n == GetAlignmentLength(alignment)
        numSequences == Len(alignment)
    IN  \A c \in pass1 :
          LET row == features[c + 1]
              gaps == Cardinality(RowsWith(alignment, c, {"-"}))
              letters == RowsWith(alignment, c, LettersAZ)
          IN  /\ numSequences >= 1
              /\ 0 <= gaps /\ gaps <= numSequences
              /\ row[1][1] * numSequences = gaps * row[1][2]
              /\ RLeq(RInt(0), row[1]) /\ RLeq(row[1], RInt(1))
              /\ 0 <= MaxLetterRows(alignment, c) /\ MaxLetterRows(alignment, c) <= numSequences
              /\ row[2][1] * numSequences = MaxLetterRows(alignment, c) * row[2][2]
              /\ RLeq(RInt(0), row[2]) /\ RLeq(row[2], RInt(1))
              /\ letters = {} => row[2] = RInt(0) /\ row[4] = RInt(0)
              /\ row[3] = RInt(IF c <= n - 1 - c THEN c ELSE n - 1 - c)

\* of three columns the middle one, at distance 1, holds no letter
C8_Witness ==
    /\ GetAlignmentLength(alignment) = 3
    /\ pass1 = {0, 1, 2}
    /\ RowsWith(alignment, 1, {"?"}) # {}
    /\ features[2] = <<RInt(0), RInt(0), RInt(1), RInt(0), RInt(0), RInt(0)>>
    /\ features[1][2] = RInt(1)

\* the step of the first pass for column c assigns only fields 0..3 of row c
FirstPassFrame ==
    \A c \in pass1' \ pass1 :
      \A r \in 1..Len(features) : \A k \in 1..6 :
        (r # c + 1 \/ k \in {5, 6}) => features'[r][k] = features[r][k]

\* the step of the second pass for column i runs after every step of the first pass,
\* assigns only fields 4 and 5 of row i, and gives them the window averages of field 0
\* as it is before the step
SecondPassFrame ==
    \A i \in pass2' \ pass2 :
      /\ pass1 = Columns(alignment)
      /\ \A r \in 1..Len(features) : \A k \in 1..6 :
           (r # i + 1 \/ k \notin {5, 6}) => features'[r][k] = features[r][k]
      /\ features'[i + 1][5] = WindowAverage(features, i, 1, GetAlignmentLength(alignment))
      /\ features'[i + 1][6] = WindowAverage(features, i, 2, GetAlignmentLength(alignment))

\* C9: the steps of a pass taken in any order, each first-pass step writes only its
\* own fields 0..3, each second-pass step writes only its own fields 4 and 5 from the
\* gap fractions of its window and runs after the whole first pass, and the matrix
\* returned is the one the loops of the code produce in ascending order.
C9_OrderIndependent ==
    /\ [][FirstPassFrame /\ SecondPassFrame]_vars
    /\ [](phase = "done" => features = GetAlignmentFeatures(alignment))

\* the last of three columns has been smoothed before the other two
C9_Witness ==
    /\ phase = "pass2"
    /\ GetAlignmentLength(alignment) >= 3
    /\ pass2 = {GetAlignmentLength(alignment) - 1}
    /\ features[GetAlignmentLength(alignment)][5] # RInt(0)

----------------------------------------------------------------------------
(* Properties of the model object and its calls *)

\* the model has the six coefficients of a feature row
SixCoefficients(m) == Len(m.logisticModelCoefficients) = FeatureCount

\* the threshold the document asks for
ThresholdOf(cfg) == IF cfg.FastThreshold = Absent THEN 500 ELSE cfg.FastThreshold[1]

\* the k-th smallest member of a set of integers
Nth(S, k) == CHOOSE x \in S : Cardinality({ y \in S : y <= x }) = k

\* the characters of a row at the columns the mask marks '1', in their order
SelectColumns(row, mask) ==
    LET kept == { i \in 1..Len(mask) : mask[i] = "1" }
    IN  [k \in 1..Cardinality(kept) |-> row[Nth(kept, k)]]

\* C1: filter returns, for every alignment, one record per record of the input in the
\* same order, each holding exactly the characters at the columns whose getMask entry
\* is '1', in column order; its column count is the number of '1' entries.
C1_FilterKeepsMaskedColumns ==
    (call.op = "filter" /\ SixCoefficients(model)) =>
        LET mask == GetMask(model, call.arg)
        IN  /\ call.result.kind = "ok"
            /\ mask.kind = "ok"
            /\ Len(call.result.value) = Len(call.arg)
            /\ \A r \in 1..Len(call.arg) :
                 /\ call.result.value[r].id = call.arg[r].id
                 /\ call.result.value[r].seq = SelectColumns(call.arg[r].seq, mask.value)
                 /\ Len(call.result.value[r].seq)
                      = Cardinality({ i \in 1..Len(mask.value) : mask.value[i] = "1" })

\* the score of one feature row: the sigmoid of its product with the coefficients
\* plus the intercept
RowScore(m, row) ==
    Sigmoid(RSum([k \in 1..FeatureCount |-> RScale(m.logisticModelCoefficients[k], row[k])]),
            m.logisticModelIntercept)

\* C2: for a feature matrix of n rows, n >= 0, getScores returns n scores, the i-th
\* computed from the i-th row, and getMaskFromFeatures a mask of n entries; without
\* columns the scores, the mask and the filtered alignment are empty and no call fails.
C2_OneScorePerRow ==
    (model.state = "constructed" /\ SixCoefficients(model)) =>
        /\ call.op = "getScores" =>
             /\ call.result.kind = "ok"
             /\ Len(call.result.value) = Len(call.arg)
             /\ \A i \in 1..Len(call.arg) : call.result.value[i] = RowScore(model, call.arg[i])
        /\ call.op = "getMaskFromFeatures" =>
             /\ call.result.kind = "ok"
             /\ Len(call.result.value) = Len(call.arg)
        /\ (call.op \in {"getMask", "filter"} /\ GetAlignmentLength(call.arg) = 0) =>
             /\ call.result.kind = "ok"
             /\ call.op = "getMask" => call.result.value = <<>>
             /\ call.op = "filter" =>
                  \A r \in 1..Len(call.arg) : call.result.value[r].seq = <<>>

\* all coefficients 0, intercept 0, no FastThreshold
ZeroModel(cfg) ==
    /\ HasModelKeys(cfg)
    /\ cfg.LogisticModel[1].Coefficients[1] = <<0, 0, 0, 0, 0, 0>>
    /\ cfg.LogisticModel[1].Intercept[1] = 0
    /\ cfg.FastThreshold = Absent

\* C3: getMaskFromScores gives one character per score, in order, '1' exactly when
\* the score is at least the threshold and '0' otherwise; a mask the model with all
\* coefficients 0, intercept 0 and the default threshold returns is all '1'.
C3_MaskIsInclusiveThreshold ==
    /\ call.op = "getMaskFromScores" =>
         /\ call.result.kind = "ok"
         /\ Len(call.result.value) = Len(call.arg)
         /\ \A i \in 1..Len(call.arg) :
              /\ call.result.value[i] \in {"0", "1"}
              /\ call.result.value[i] = "1" <=> call.arg[i] >= ThresholdOf(config)
    /\ (call.op = "getMaskFromFeatures" /\ ZeroModel(config) /\ call.result.kind = "ok") =>
         /\ Len(call.result.value) = Len(call.arg)
         /\ \A i \in 1..Len(call.arg) : call.result.value[i] = "1"

\* a score equal to the threshold is kept and one just below it dropped
C3_Witness ==
    /\ call.op = "getMaskFromScores"
    /\ ThresholdOf(config) = 600
    /\ call.arg = <<600, 599>>
    /\ call.result.value = <<"1", "0">>

AlignmentCalls == {"getAlignmentFeatures", "getMask", "filter"}

\* C6 as stated: every call on an alignment without sequences fails with an
\* InvalidAlignmentError.
C6_ZeroSequencesRejected ==
    (Len(alignment) = 0 /\ call.op \in AlignmentCalls) =>
        call.result.kind = "InvalidAlignmentError"

\* C6 as amended: an alignment without sequences has no columns, and feature
\* extraction, getMask and filter on it return an empty feature matrix, an empty mask
\* and an alignment without records; none of them fails.
C6_ZeroSequencesEmpty ==
    Len(alignment) = 0 =>
        /\ call.op = "getAlignmentFeatures" => call.result = Ok(<<>>)
        /\ (call.op \in {"getMask", "filter"} /\ SixCoefficients(model)) =>
             call.result = Ok(<<>>)

\* filter has returned the empty alignment for an alignment without sequences
C6_Witness ==
    /\ Len(alignment) = 0
    /\ call.op = "filter"
    /\ call.result = Ok(<<>>)

\* the document lacks the coefficients or the intercept, or has not six coefficients
Malformed(cfg) ==
    \/ ~HasModelKeys(cfg)
    \/ Len(cfg.LogisticModel[1].Coefficients[1]) # FeatureCount

ScoringCalls == {"getScores", "getMaskFromFeatures", "getMask", "filter"}

\* C7 as stated: the construction fails for every malformed document, and a
\* well-formed one without FastThreshold gets the threshold 0.5.
C7_MalformedRejectedAtLoad ==
    model.state # "unconstructed" =>
        /\ Malformed(config) => model.state # "constructed"
        /\ (~Malformed(config) /\ config.FastThreshold = Absent) =>
             model.state = "constructed" /\ model.threshold = 500

\* C7 as amended: the construction fails (KeyError) exactly when the coefficient list
\* or the intercept is missing; a document with both is accepted whatever the number
\* of coefficients, with its FastThreshold or 0.5, and when the coefficients are not
\* six every scoring call fails (ValueError).
C7_KeysCheckedLengthNot ==
    model.state # "unconstructed" =>
        /\ ~HasModelKeys(config) => model.state = "KeyError"
        /\ HasModelKeys(config) =>
             /\ model.state = "constructed"
             /\ model.logisticModelCoefficients = config.LogisticModel[1].Coefficients[1]
             /\ model.logisticModelIntercept = config.LogisticModel[1].Intercept[1]
             /\ model.threshold = ThresholdOf(config)
             /\ (~SixCoefficients(model) /\ call.op \in ScoringCalls) =>
                  call.result.kind = "ValueError"

\* a model of five coefficients and the default threshold was constructed, and its
\* getScores failed
C7_Witness ==
    /\ model.state = "constructed"
    /\ Len(model.logisticModelCoefficients) = 5
    /\ model.threshold = 500
    /\ call.op = "getScores"
    /\ call.result.kind = "ValueError"

\* what a call returns on a model as the constructor leaves it
ResultOf(op, m, arg) ==
    CASE op = "getAlignmentFeatures" -> Ok(GetAlignmentFeatures(arg))
      [] op = "getScores" -> GetScores(m, arg)
      [] op = "getMaskFromScores" -> Ok(GetMaskFromScores(m, arg))
      [] op = "getMaskFromFeatures" -> GetMaskFromFeatures(m, arg)
      [] op = "getMask" -> GetMask(m, arg)
      [] op = "filter" -> Filter(m, arg)

\* a step of a constructed model leaves the model, the document and the alignment as
\* they are, and a call leaves its argument as it was given
CallsFrame ==
    model.state = "constructed" =>
        /\ model' = model
        /\ config' = config
        /\ alignment' = alignment
        /\ call'.op # "none" => call'.argAfter = call'.arg

\* C10: after construction no call changes the coefficients, the intercept, the
\* threshold, the alignment or the feature matrix it is given, and every call returns
\* what the model as constructed returns on its argument, whatever calls came before.
C10_CallsArePure ==
    /\ [][CallsFrame]_vars
    /\ [](call.op # "none" =>
            /\ call.op # "getAlignmentFeatures" => model = NewModel(config)
            /\ call.arg = call.argAfter
            /\ call.result = ResultOf(call.op, NewModel(config), call.arg))

\* a filter that dropped some columns and kept some has returned
C10_Witness ==
    /\ call.op = "filter"
    /\ call.result.kind = "ok"
    /\ Len(alignment) = 2
    /\ call.arg = alignment
    /\ Len(call.result.value[1].seq) > 0
    /\ Len(call.result.value[1].seq) < Len(alignment[1].seq)

====
